---------------------------- MODULE Spec2Model ----------------------------
(***************************************************************************)
(* The accessible contact form of codexdot/aria-form: the form store and   *)
(* submission orchestrator of AccessibleForm.tsx and the CustomSelect      *)
(* combobox (the documented copy in NewsletterSection.tsx, lines 89-335).  *)
(*                                                                         *)
(* A text value is a sequence of one-character strings, so that trim() and *)
(* the two regular expressions of validateForm are computed, not assumed.  *)
(* Each action is one event handler, run to completion: React applies the  *)
(* state updates a handler queued before the next event is dispatched.     *)
(***************************************************************************)
EXTENDS Integers, Sequences, FiniteSets, TLC

VARIABLES
    formData,          \* useState<FormData>          AccessibleForm.tsx:25
    errors,            \* useState<FormErrors>        AccessibleForm.tsx:37
    isSubmitting,      \* useState(false)             AccessibleForm.tsx:38
    pending,           \* handleSubmit calls suspended at the await (line 165)
    emitted,           \* toasts emitted by the last handler step, in order
    focus,             \* element last given keyboard focus by the program
    options,           \* CustomSelect prop options
    isOpen,            \* CustomSelect useState(false)    NewsletterSection.tsx:100
    focusedIndex,      \* CustomSelect useState(-1)       NewsletterSection.tsx:101
    announcementText,  \* CustomSelect useState('')       NewsletterSection.tsx:102
    threw,             \* the last CustomSelect handler ended in a TypeError
    listeners,         \* mousedown listeners CustomSelect holds on the document
    scrolled,          \* index of the option the last step's effects scrolled
                       \* into view, -1 if they scrolled none
    part002,           \* a CustomSelect of part_002 given the same options and
                       \* events, if one is mounted
    lastEvent          \* the event whose handler ran last

vars == <<formData, errors, isSubmitting, pending, emitted, focus,
          options, isOpen, focusedIndex, announcementText, threw, listeners,
          scrolled, part002, lastEvent>>

---------------------------------------------------------------------------
(* Bounds of the model *)

\* submissions the model lets be outstanding at once (the button allows one)
MaxPending == 2
\* longest option list handed to a stand-alone CustomSelect
MaxOpts == 2

---------------------------------------------------------------------------
(* Text values *)

Min(S) == CHOOSE x \in S : \A y \in S : x <= y
Max(S) == CHOOSE x \in S : \A y \in S : x >= y

Digits == {"0", "1", "2", "3", "4", "5", "6", "7", "8", "9"}

\* \s of a JavaScript regular expression, and what String.prototype.trim strips
IsSpace(c) == c \in {" ", "\t", "\n"}

\* Faulty variant: a validation that does not trim
TrimNone(s) == s

\* Faulty variant: a trim that strips leading whitespace only (trimStart)
TrimStart(s) ==
    LET keep == {i \in 1..Len(s) : ~IsSpace(s[i])}
    IN  IF keep = {} THEN <<>> ELSE SubSeq(s, Min(keep), Len(s))

\* String.prototype.trim
Trim(s) ==
    LET keep == {i \in 1..Len(s) : ~IsSpace(s[i])}
    IN  IF keep = {} THEN <<>> ELSE SubSeq(s, Min(keep), Max(keep))

\* Faulty variant: an email pattern that asks for no dot after the '@'
EmailRegexTestNoDot(s) ==
    \E a \in 1..Len(s) :
        /\ s[a] = "@"
        /\ 1 < a
        /\ a < Len(s)
        /\ \A i \in (1..Len(s)) \ {a} : ~IsSpace(s[i]) /\ s[i] # "@"

\* /^[^\s@]+@[^\s@]+\.[^\s@]+$/.test(s)
EmailRegexTest(s) ==
    \E a \in 1..Len(s) : \E d \in 1..Len(s) :
        /\ s[a] = "@"
        /\ s[d] = "."
        /\ 1 < a
        /\ a + 1 < d
        /\ d < Len(s)
        /\ \A i \in (1..Len(s)) \ {a} : ~IsSpace(s[i]) /\ s[i] # "@"

\* Faulty variant: a phone pattern that admits digits only
PhoneRegexTestDigits(s) ==
    /\ Len(s) >= 1
    /\ \A i \in 1..Len(s) : s[i] \in Digits

\* /^[\d\s\-\+\(\)]+$/.test(s)
PhoneRegexTest(s) ==
    /\ Len(s) >= 1
    /\ \A i \in 1..Len(s) :
           s[i] \in Digits \/ IsSpace(s[i]) \/ s[i] \in {"-", "+", "(", ")"}

TextFields == {"firstName", "lastName", "email", "phone", "subject", "message"}

ContactMethods == {"email", "phone", "either"}

---------------------------------------------------------------------------
(* The form store *)

InitialFormData ==
    [ firstName |-> <<>>, lastName |-> <<>>, email |-> <<>>, phone |-> <<>>,
      subject |-> <<>>, message |-> <<>>, newsletter |-> FALSE,
      contactMethod |-> "email", urgency |-> "medium" ]

urgencyOptions ==
    << [value |-> "low",    label |-> "Low - Response within 5 business days"],
       [value |-> "medium", label |-> "Medium - Response within 2 business days"],
       [value |-> "high",   label |-> "High - Response within 24 hours"],
       [value |-> "urgent", label |-> "Urgent - Response within 4 hours"] >>

\* the shortest message validateForm accepts
MinMessageLength == 10

\* The entries validateForm adds to newErrors, in the order it adds them.
NewErrors(fd) ==
    (IF Trim(fd.firstName) = <<>>
        THEN << <<"firstName", "First name is required">> >> ELSE <<>>)
    \o (IF Trim(fd.lastName) = <<>>
        THEN << <<"lastName", "Last name is required">> >> ELSE <<>>)
    \o (IF Trim(fd.email) = <<>>
        THEN << <<"email", "Email address is required">> >>
        ELSE IF ~EmailRegexTest(fd.email)
        THEN << <<"email", "Please enter a valid email address">> >> ELSE <<>>)
    \o (IF Trim(fd.subject) = <<>>
        THEN << <<"subject", "Subject is required">> >> ELSE <<>>)
    \o (IF Trim(fd.message) = <<>>
        THEN << <<"message", "Message is required">> >>
        ELSE IF Len(Trim(fd.message)) < MinMessageLength
        THEN << <<"message", "Message must be at least 10 characters long">> >>
        ELSE <<>>)
    \o (IF fd.phone # <<>> /\ ~PhoneRegexTest(fd.phone)
        THEN << <<"phone", "Please enter a valid phone number">> >> ELSE <<>>)

\* A JavaScript object built by adding the entries of a sequence of
\* <<key, value>> pairs whose keys are distinct.
ToObject(entries) ==
    [k \in {entries[i][1] : i \in 1..Len(entries)} |->
        (CHOOSE e \in {entries[i] : i \in 1..Len(entries)} : e[1] = k)[2]]

\* Faulty variant: a validateForm that lets every form through
validateFormAlwaysValid(fd) == TRUE

\* Object.keys(obj).length === 0 for the object validateForm built
validateForm(fd) == Len(NewErrors(fd)) = 0


\* Faulty variant: a second validation that was not given the phone check
CurrentErrorsNoPhone(fd) ==
    (IF Trim(fd.firstName) = <<>>
        THEN << <<"firstName", "First name is required">> >> ELSE <<>>)
    \o (IF Trim(fd.lastName) = <<>>
        THEN << <<"lastName", "Last name is required">> >> ELSE <<>>)
    \o (IF Trim(fd.email) = <<>>
        THEN << <<"email", "Email address is required">> >>
        ELSE IF ~EmailRegexTest(fd.email)
        THEN << <<"email", "Please enter a valid email address">> >> ELSE <<>>)
    \o (IF Trim(fd.subject) = <<>>
        THEN << <<"subject", "Subject is required">> >> ELSE <<>>)
    \o (IF Trim(fd.message) = <<>>
        THEN << <<"message", "Message is required">> >>
        ELSE IF Len(Trim(fd.message)) < MinMessageLength
        THEN << <<"message", "Message must be at least 10 characters long">> >>
        ELSE <<>>)

\* The entries the failure branch of handleSubmit adds to currentErrors, in
\* the order it adds them (the validation is written out a second time).
CurrentErrors(fd) ==
    (IF Trim(fd.firstName) = <<>>
        THEN << <<"firstName", "First name is required">> >> ELSE <<>>)
    \o (IF Trim(fd.lastName) = <<>>
        THEN << <<"lastName", "Last name is required">> >> ELSE <<>>)
    \o (IF Trim(fd.email) = <<>>
        THEN << <<"email", "Email address is required">> >>
        ELSE IF ~EmailRegexTest(fd.email)
        THEN << <<"email", "Please enter a valid email address">> >> ELSE <<>>)
    \o (IF Trim(fd.subject) = <<>>
        THEN << <<"subject", "Subject is required">> >> ELSE <<>>)
    \o (IF Trim(fd.message) = <<>>
        THEN << <<"message", "Message is required">> >>
        ELSE IF Len(Trim(fd.message)) < MinMessageLength
        THEN << <<"message", "Message must be at least 10 characters long">> >>
        ELSE <<>>)
    \o (IF fd.phone # <<>> /\ ~PhoneRegexTest(fd.phone)
        THEN << <<"phone", "Please enter a valid phone number">> >> ELSE <<>>)

fieldLabels ==
    [ firstName |-> "First Name", lastName |-> "Last Name", email |-> "Email",
      phone |-> "Phone", subject |-> "Subject", message |-> "Message" ]

\* A toast: its kind, its first line and the bullet lines under it.
Toast(kind, text, items) == [kind |-> kind, text |-> text, items |-> items]

\* toast.error(errorMessage) of the failure branch: one bullet per entry
ValidationToast(cur) ==
    Toast("error",
          IF Len(cur) = 1 THEN "Please fix the following issue:"
                          ELSE "Please fix the following issues:",
          [i \in 1..Len(cur) |-> <<fieldLabels[cur[i][1]], cur[i][2]>>])

SubmittingToast == Toast("info", "Submitting your message...", <<>>)

SuccessToast ==
    Toast("success",
          "Thank you! Your message has been submitted successfully. We will respond according to your selected urgency level.",
          <<>>)

FailureToast ==
    Toast("error",
          "An error occurred while submitting your message. Please try again or contact us directly.",
          <<>>)

\* Faulty variant: a reset that forgets the two choices made outside the text fields
ResetFormDataTextOnly ==
    [ firstName |-> <<>>, lastName |-> <<>>, email |-> <<>>, phone |-> <<>>,
      subject |-> <<>>, message |-> <<>>, newsletter |-> FALSE,
      contactMethod |-> formData.contactMethod, urgency |-> formData.urgency ]

\* the object handleSubmit hands to setFormData after a successful submission
ResetFormData ==
    [ firstName |-> <<>>, lastName |-> <<>>, email |-> <<>>, phone |-> <<>>,
      subject |-> <<>>, message |-> <<>>, newsletter |-> FALSE,
      contactMethod |-> "email", urgency |-> "medium" ]

Event(type, name, index) == [type |-> type, name |-> name, index |-> index]

\* the polite live region renders 'Form validation failed. ...' and its
\* list: Object.keys(errors).length > 0
ErrorRegionRendered == DOMAIN errors # {}

\* errors[name] is truthy: the key is there and its message is not ''
HasError(errs, name) == name \in DOMAIN errs /\ errs[name] # ""

\* Faulty variant: a handleInputChange that writes '' for the field whether
\* or not it has an error
handleInputChangeAlwaysClears(name, value) ==
    /\ formData' = [formData EXCEPT ![name] = value]
    /\ errors' = [k \in DOMAIN errors \cup {name} |->
                     IF k = name THEN "" ELSE errors[k]]

\* Faulty variant: a handleInputChange that validates the form again on every
\* change
handleInputChangeValidates(name, value) ==
    /\ formData' = [formData EXCEPT ![name] = value]
    /\ errors' = ToObject(NewErrors([formData EXCEPT ![name] = value]))

\* handleInputChange(name, value): onChange of every control of the form
handleInputChange(name, value) ==
    /\ formData' = [formData EXCEPT ![name] = value]
    /\ errors' = IF HasError(errors, name)
                    THEN [errors EXCEPT ![name] = ""]
                    ELSE errors

\* Faulty variant: a submit button that is never disabled
SubmitButtonAlwaysEnabled == TRUE

\* the submit button takes no click while it is disabled={isSubmitting}
SubmitButtonEnabled == ~isSubmitting

\* handleSubmit up to its return (validation failed) or its await
handleSubmit ==
    /\ errors' = ToObject(NewErrors(formData))
    /\ IF ~validateForm(formData)
          THEN LET currentErrors == CurrentErrors(formData)
               IN  /\ focus' = IF Len(currentErrors) > 0
                                  THEN currentErrors[1][1] ELSE focus
                   /\ emitted' = <<ValidationToast(currentErrors)>>
                   /\ UNCHANGED <<formData, isSubmitting, pending>>
          ELSE /\ isSubmitting' = TRUE
               /\ emitted' = <<SubmittingToast>>
               /\ pending' = pending + 1
               /\ UNCHANGED <<formData, focus>>

\* Faulty variant: a try block that fails after its success toast, so that
\* the catch block reports a failure as well
handleSubmitResolvedThenCaught ==
    /\ emitted' = <<SuccessToast, FailureToast>>
    /\ formData' = ResetFormData
    /\ focus' = "firstName"
    /\ isSubmitting' = FALSE
    /\ pending' = pending - 1
    /\ UNCHANGED errors

\* Faulty variant: a success path that does not reach setIsSubmitting(false)
handleSubmitResolvedNoFinally ==
    /\ emitted' = <<SuccessToast>>
    /\ formData' = ResetFormData
    /\ focus' = "firstName"
    /\ pending' = pending - 1
    /\ UNCHANGED <<errors, isSubmitting>>

\* handleSubmit from the await on, the submission having succeeded
handleSubmitResolved ==
    /\ emitted' = <<SuccessToast>>
    /\ formData' = ResetFormData
    /\ focus' = "firstName"
    /\ isSubmitting' = FALSE
    /\ pending' = pending - 1
    /\ UNCHANGED errors

\* Faulty variant: a catch block that clears the form as the success path does
handleSubmitRejectedClears ==
    /\ emitted' = <<FailureToast>>
    /\ formData' = InitialFormData
    /\ isSubmitting' = FALSE
    /\ pending' = pending - 1
    /\ UNCHANGED <<errors, focus>>

\* Faulty variant: handleSubmit without its finally block
handleSubmitRejectedNoFinally ==
    /\ emitted' = <<FailureToast>>
    /\ pending' = pending - 1
    /\ UNCHANGED <<formData, errors, focus, isSubmitting>>

\* handleSubmit from the await on, the submission having failed: catch, finally
handleSubmitRejected ==
    /\ emitted' = <<FailureToast>>
    /\ isSubmitting' = FALSE
    /\ pending' = pending - 1
    /\ UNCHANGED <<formData, errors, focus>>


---------------------------------------------------------------------------
(* CustomSelect *)

\* options.findIndex(option => option.value === v), counted from 0
FindIndex(opts, v) ==
    LET hits == {i \in 1..Len(opts) : opts[i].value = v}
    IN  IF hits = {} THEN -1 ELSE Min(hits) - 1

\* options[i] is an element of the array, not undefined (i counted from 0)
InRange(opts, i) == 0 <= i /\ i <= Len(opts) - 1

DigitString == <<"0", "1", "2", "3", "4", "5", "6", "7", "8", "9">>

\* the decimal digits of n >= 0, one string each
RECURSIVE Decimal(_)
Decimal(n) ==
    IF n < 10 THEN <<DigitString[n + 1]>>
              ELSE Decimal(n \div 10) \o <<DigitString[(n % 10) + 1]>>

\* An announcement is the sequence of the pieces of its template string.
CountAnnouncement(n) ==
    Decimal(n) \o <<" options available. Use arrow keys to navigate.">>
SelectedAnnouncement(label) == <<"Selected: ", label>>

\* Faulty variant: an Escape that clears the announcement, as closing by the
\* trigger does
CancelledAnnouncementCleared == <<>>

CancelledAnnouncement == <<"Selection cancelled">>
LabelAnnouncement(label) == <<label>>
NoAnnouncement == <<>>

\* the id of the trigger button: triggerRef.current?.focus()
TriggerId == "urgency"

\* the props value and onChange as AccessibleForm passes them
value == formData.urgency
onChange(v) == handleInputChange("urgency", v)

\* Faulty variant: a handleToggle that opens at the first option, as the
\* ArrowDown branch does
handleToggleFirst ==
    LET willOpen == ~isOpen
    IN  /\ isOpen' = willOpen
        /\ IF willOpen
              THEN /\ focusedIndex' = 0
                   /\ announcementText' = CountAnnouncement(Len(options))
              ELSE /\ announcementText' = NoAnnouncement
                   /\ UNCHANGED focusedIndex
        /\ threw' = FALSE
        /\ UNCHANGED <<formData, errors, focus>>

\* Faulty variant: a handleToggle that opens without setting focusedIndex
handleToggleKeepsIndex ==
    LET willOpen == ~isOpen
    IN  /\ isOpen' = willOpen
        /\ announcementText' = IF willOpen
                                  THEN CountAnnouncement(Len(options))
                                  ELSE NoAnnouncement
        /\ threw' = FALSE
        /\ UNCHANGED <<formData, errors, focus, focusedIndex>>

handleToggle ==
    LET willOpen == ~isOpen
        selectedIndex == FindIndex(options, value)
    IN  /\ isOpen' = willOpen
        /\ IF willOpen
              THEN /\ focusedIndex' = IF selectedIndex >= 0 THEN selectedIndex ELSE 0
                   /\ announcementText' = CountAnnouncement(Len(options))
              ELSE /\ announcementText' = NoAnnouncement
                   /\ UNCHANGED focusedIndex
        /\ threw' = FALSE
        /\ UNCHANGED <<formData, errors, focus>>

\* Faulty variant: a handleSelect that hands the option's label to onChange
handleSelectLabel(optionValue) ==
    LET found == FindIndex(options, optionValue)
    IN  /\ onChange(IF found >= 0 THEN options[found + 1].label ELSE optionValue)
        /\ isOpen' = FALSE
        /\ focus' = TriggerId
        /\ announcementText' =
              IF found >= 0 THEN SelectedAnnouncement(options[found + 1].label)
                            ELSE announcementText
        /\ threw' = FALSE
        /\ UNCHANGED focusedIndex

\* Faulty variant: a handleSelect that leaves the focus where it is
handleSelectNoFocus(optionValue) ==
    LET found == FindIndex(options, optionValue)
    IN  /\ onChange(optionValue)
        /\ isOpen' = FALSE
        /\ announcementText' =
              IF found >= 0 THEN SelectedAnnouncement(options[found + 1].label)
                            ELSE announcementText
        /\ threw' = FALSE
        /\ UNCHANGED <<focus, focusedIndex>>

handleSelect(optionValue) ==
    LET found == FindIndex(options, optionValue)
    IN  /\ onChange(optionValue)
        /\ isOpen' = FALSE
        /\ focus' = TriggerId
        /\ announcementText' =
              IF found >= 0 THEN SelectedAnnouncement(options[found + 1].label)
                            ELSE announcementText
        /\ threw' = FALSE
        /\ UNCHANGED focusedIndex

\* the handler stops at a TypeError: it read a property of undefined
Throws ==
    /\ threw' = TRUE
    /\ UNCHANGED <<formData, errors, focus>>

\* Faulty variant: a FocusAndAnnounce that reads the label at the focusedIndex
\* of the last render instead of at the new index
FocusAndAnnounceStale(i) ==
    /\ focusedIndex' = i
    /\ IF InRange(options, focusedIndex)
          THEN /\ announcementText' =
                     LabelAnnouncement(options[focusedIndex + 1].label)
               /\ threw' = FALSE
               /\ UNCHANGED <<formData, errors, focus>>
          ELSE /\ UNCHANGED announcementText
               /\ Throws
    /\ UNCHANGED isOpen

\* Faulty variant: a FocusAndAnnounce that moves the index and announces
\* nothing
FocusOnly(i) ==
    /\ focusedIndex' = i
    /\ threw' = FALSE
    /\ UNCHANGED <<formData, errors, focus, isOpen, announcementText>>

\* Faulty variant: a FocusAndAnnounce in which the selection follows the
\* focus, as in a native select
FocusAndCommit(i) ==
    /\ focusedIndex' = i
    /\ IF InRange(options, i)
          THEN /\ announcementText' = LabelAnnouncement(options[i + 1].label)
               /\ threw' = FALSE
               /\ onChange(options[i + 1].value)
               /\ UNCHANGED focus
          ELSE /\ UNCHANGED announcementText
               /\ Throws
    /\ UNCHANGED isOpen

\* setFocusedIndex(i), then setAnnouncementText(`${options[i].label}`)
FocusAndAnnounce(i) ==
    /\ focusedIndex' = i
    /\ IF InRange(options, i)
          THEN /\ announcementText' = LabelAnnouncement(options[i + 1].label)
               /\ threw' = FALSE
               /\ UNCHANGED <<formData, errors, focus>>
          ELSE /\ UNCHANGED announcementText
               /\ Throws
    /\ UNCHANGED isOpen

Keys == {"Enter", " ", "Escape", "ArrowDown", "ArrowUp", "Home", "End"}

NoStateChange ==
    /\ threw' = FALSE
    /\ UNCHANGED <<formData, errors, focus, isOpen, focusedIndex, announcementText>>

\* Faulty variant: a handleKeyDown whose Enter and Space select whenever a
\* focusedIndex is left, open or closed
handleKeyDownLeftover(key) ==
    CASE key \in {"Enter", " "} ->
            IF focusedIndex >= 0
               THEN IF InRange(options, focusedIndex)
                       THEN handleSelect(options[focusedIndex + 1].value)
                       ELSE /\ Throws
                            /\ UNCHANGED <<isOpen, focusedIndex, announcementText>>
               ELSE handleToggle
      [] key = "Escape" ->
            IF isOpen
               THEN /\ isOpen' = FALSE
                    /\ focus' = TriggerId
                    /\ announcementText' = CancelledAnnouncement
                    /\ threw' = FALSE
                    /\ UNCHANGED <<formData, errors, focusedIndex>>
               ELSE NoStateChange
      [] key = "ArrowDown" ->
            IF ~isOpen
               THEN /\ isOpen' = TRUE
                    /\ focusedIndex' = 0
                    /\ announcementText' = CountAnnouncement(Len(options))
                    /\ threw' = FALSE
                    /\ UNCHANGED <<formData, errors, focus>>
               ELSE LET newIndex == Min({focusedIndex + 1, Len(options) - 1})
                    IN  FocusAndAnnounce(newIndex)
      [] key = "ArrowUp" ->
            IF isOpen
               THEN LET newIndex == Max({focusedIndex - 1, 0})
                    IN  FocusAndAnnounce(newIndex)
               ELSE NoStateChange
      [] key = "Home" ->
            IF isOpen THEN FocusAndAnnounce(0) ELSE NoStateChange
      [] key = "End" ->
            IF isOpen
               THEN LET lastIndex == Len(options) - 1
                    IN  FocusAndAnnounce(lastIndex)
               ELSE NoStateChange

handleKeyDown(key) ==
    CASE key \in {"Enter", " "} ->
            IF isOpen /\ focusedIndex >= 0
               THEN IF InRange(options, focusedIndex)
                       THEN handleSelect(options[focusedIndex + 1].value)
                       ELSE /\ Throws
                            /\ UNCHANGED <<isOpen, focusedIndex, announcementText>>
               ELSE handleToggle
      [] key = "Escape" ->
            IF isOpen
               THEN /\ isOpen' = FALSE
                    /\ focus' = TriggerId
                    /\ announcementText' = CancelledAnnouncement
                    /\ threw' = FALSE
                    /\ UNCHANGED <<formData, errors, focusedIndex>>
               ELSE NoStateChange
      [] key = "ArrowDown" ->
            IF ~isOpen
               THEN /\ isOpen' = TRUE
                    /\ focusedIndex' = 0
                    /\ announcementText' = CountAnnouncement(Len(options))
                    /\ threw' = FALSE
                    /\ UNCHANGED <<formData, errors, focus>>
               ELSE LET newIndex == Min({focusedIndex + 1, Len(options) - 1})
                    IN  FocusAndAnnounce(newIndex)
      [] key = "ArrowUp" ->
            IF isOpen
               THEN LET newIndex == Max({focusedIndex - 1, 0})
                    IN  FocusAndAnnounce(newIndex)
               ELSE NoStateChange
      [] key = "Home" ->
            IF isOpen THEN FocusAndAnnounce(0) ELSE NoStateChange
      [] key = "End" ->
            IF isOpen
               THEN LET lastIndex == Len(options) - 1
                    IN  FocusAndAnnounce(lastIndex)
               ELSE NoStateChange

\* Faulty variant: an effect that returns no cleanup, so that no listener is
\* ever removed
clickOutsideEffectNoCleanup(wasOpen, nowOpen, n) ==
    IF wasOpen = nowOpen
       THEN n
       ELSE n + (IF nowOpen THEN 1 ELSE 0)

\* Faulty variant: a scroll effect that depends on [isOpen] alone
scrollEffectOnOpen(wasOpen, wasIndex, nowOpen, nowIndex) ==
    IF wasOpen = nowOpen
       THEN -1
       ELSE IF nowOpen /\ nowIndex >= 0 /\ InRange(options, nowIndex)
               THEN nowIndex
               ELSE -1

\* The effect with the dependencies [focusedIndex, isOpen], run after a
\* render in which one of them changed: it calls scrollIntoView on
\* optionRefs.current[focusedIndex], which holds an element exactly for the
\* options of the rendered (open) listbox. The result is the index scrolled
\* into view, -1 if none.
scrollEffect(wasOpen, wasIndex, nowOpen, nowIndex) ==
    IF wasOpen = nowOpen /\ wasIndex = nowIndex
       THEN -1
       ELSE IF nowOpen /\ nowIndex >= 0 /\ InRange(options, nowIndex)
               THEN nowIndex
               ELSE -1

\* The effect with the dependency [isOpen], run after a render: when isOpen
\* changed, the cleanup the last run returned (it returned one only if it had
\* added a listener) is run, then a listener is added if the dropdown is open.
\* n is the number of listeners held before.
clickOutsideEffect(wasOpen, nowOpen, n) ==
    IF wasOpen = nowOpen
       THEN n
       ELSE (IF wasOpen THEN n - 1 ELSE n) + (IF nowOpen THEN 1 ELSE 0)

\* Faulty variant: a test that looks at the listbox only, so that a press on
\* the trigger counts as outside
IsOutsideListbox(target) == target # "listbox"

\* the test of handleClickOutside: the target of the mousedown is neither in
\* the trigger nor in the listbox
IsOutside(target) == target # "trigger" /\ target # "listbox"

\* handleClickOutside, the listener the effect keeps on the document while
\* isOpen, for a mousedown outside the trigger and outside the listbox
handleClickOutside ==
    /\ isOpen' = FALSE
    /\ threw' = FALSE
    /\ UNCHANGED <<formData, errors, focus, focusedIndex, announcementText>>


---------------------------------------------------------------------------
(* The CustomSelect of src/unnamed/part_002: no announcements, and updates *)
(* of focusedIndex by the arrows given as functions of the state before.   *)
(* Its state is a record p; each handler gives the record after it.        *)

\* no such instance is mounted
NoPart002 ==
    [mounted |-> FALSE, isOpen |-> FALSE, focusedIndex |-> -1, value |-> ""]

\* the state at mount: useState(false), useState(-1), the prop value
MountPart002(v) ==
    [mounted |-> TRUE, isOpen |-> FALSE, focusedIndex |-> -1, value |-> v]

\* Faulty variant: a handleToggle that opens without setting focusedIndex
part002HandleToggleNoFocus(p) == [p EXCEPT !.isOpen = ~p.isOpen]

part002HandleToggle(p) ==
    IF ~p.isOpen
       THEN LET selectedIndex == FindIndex(options, p.value)
            IN  [p EXCEPT !.isOpen = TRUE,
                          !.focusedIndex = IF selectedIndex >= 0
                                              THEN selectedIndex ELSE 0]
       ELSE [p EXCEPT !.isOpen = FALSE]

\* onChange(optionValue): the parent hands the value back as the prop
part002HandleSelect(p, optionValue) ==
    [p EXCEPT !.value = optionValue, !.isOpen = FALSE]

\* reading options[focusedIndex].value outside the list throws before any
\* state is set
part002HandleKeyDown(p, key) ==
    CASE key \in {"Enter", " "} ->
            IF p.isOpen /\ p.focusedIndex >= 0
               THEN IF InRange(options, p.focusedIndex)
                       THEN part002HandleSelect(p,
                                options[p.focusedIndex + 1].value)
                       ELSE p
               ELSE part002HandleToggle(p)
      [] key = "Escape" ->
            IF p.isOpen THEN [p EXCEPT !.isOpen = FALSE] ELSE p
      [] key = "ArrowDown" ->
            IF ~p.isOpen
               THEN [p EXCEPT !.isOpen = TRUE, !.focusedIndex = 0]
               ELSE [p EXCEPT !.focusedIndex =
                        Min({p.focusedIndex + 1, Len(options) - 1})]
      [] key = "ArrowUp" ->
            IF p.isOpen
               THEN [p EXCEPT !.focusedIndex = Max({p.focusedIndex - 1, 0})]
               ELSE p
      [] key = "Home" ->
            IF p.isOpen THEN [p EXCEPT !.focusedIndex = 0] ELSE p
      [] key = "End" ->
            IF p.isOpen THEN [p EXCEPT !.focusedIndex = Len(options) - 1]
                        ELSE p
      [] OTHER -> p

\* the instance after the event the documented CustomSelect was given: the
\* options and the click-outside listener exist only while it is open
part002Event(p, type, name, index) ==
    IF ~p.mounted THEN p
    ELSE CASE type = "click" -> part002HandleToggle(p)
           [] type = "key" -> part002HandleKeyDown(p, name)
           [] type = "option" ->
                 IF p.isOpen /\ InRange(options, index)
                    THEN part002HandleSelect(p, options[index + 1].value)
                    ELSE p
           [] type = "hover" ->
                 IF p.isOpen THEN [p EXCEPT !.focusedIndex = index] ELSE p
           [] type = "outside" ->
                 IF p.isOpen THEN [p EXCEPT !.isOpen = FALSE] ELSE p
           [] OTHER -> p

---------------------------------------------------------------------------
(* Events *)

\* what the user can have typed into each text field
TextInputs(f) ==
    CASE f = "firstName" -> {<<>>, <<"A", "l">>}
      [] f = "lastName"  -> {<<>>, <<"B", "o">>}
      [] f = "email"     -> {<<>>, <<"a", "@", "b", ".", "c", "o">>}
      [] f = "phone"     -> {<<>>, <<"a", "b", "c">>}
      [] f = "subject"   -> {<<>>, <<"H", "i">>}
      [] f = "message"   -> {<<>>, <<"1", "2", "3", "4", "5", "6", "7", "8", "9", "0">>}

NoErrors == [k \in {} |-> ""]

Init ==
    /\ formData = InitialFormData
    /\ errors = NoErrors
    /\ isSubmitting = FALSE
    /\ pending = 0
    /\ emitted = <<>>
    /\ focus = "none"
    /\ options = urgencyOptions
    /\ isOpen = FALSE
    /\ focusedIndex = -1
    /\ announcementText = NoAnnouncement
    /\ threw = FALSE
    /\ listeners = 0
    /\ scrolled = -1
    /\ part002 = NoPart002
    /\ lastEvent = Event("mount", "", -1)

\* a handler of the form ran: no toast unless it says so, CustomSelect untouched
FormStep(type, name) ==
    /\ lastEvent' = Event(type, name, -1)
    /\ threw' = FALSE
    /\ scrolled' = -1
    /\ UNCHANGED <<options, isOpen, focusedIndex, announcementText, listeners,
                   part002>>

\* a handler of CustomSelect ran: no toast, no submission started or settled
SelectStep(type, name, index) ==
    /\ lastEvent' = Event(type, name, index)
    /\ emitted' = <<>>
    /\ listeners' = clickOutsideEffect(isOpen, isOpen', listeners)
    /\ scrolled' = scrollEffect(isOpen, focusedIndex, isOpen', focusedIndex')
    /\ part002' = part002Event(part002, type, name, index)
    /\ UNCHANGED <<options, isSubmitting, pending>>

\* onChange of a FormField
ChangeText(f, v) ==
    /\ handleInputChange(f, v)
    /\ emitted' = <<>>
    /\ FormStep("change", f)
    /\ UNCHANGED <<isSubmitting, pending, focus>>

\* onChange of the newsletter checkbox
ChangeNewsletter ==
    /\ handleInputChange("newsletter", ~formData.newsletter)
    /\ emitted' = <<>>
    /\ FormStep("change", "newsletter")
    /\ UNCHANGED <<isSubmitting, pending, focus>>

\* onChange of a radio input of the contact method group
ChangeContactMethod(m) ==
    /\ handleInputChange("contactMethod", m)
    /\ emitted' = <<>>
    /\ FormStep("change", "contactMethod")
    /\ UNCHANGED <<isSubmitting, pending, focus>>

\* onSubmit of the form, by a click on the submit button
Submit ==
    /\ SubmitButtonEnabled
    /\ pending < MaxPending
    /\ handleSubmit
    /\ FormStep("submit", "")

\* the awaited promise of a suspended handleSubmit resolves
Resolve ==
    /\ pending > 0
    /\ handleSubmitResolved
    /\ FormStep("resolve", "")

\* the awaited promise of a suspended handleSubmit rejects
Reject ==
    /\ pending > 0
    /\ handleSubmitRejected
    /\ FormStep("reject", "")

\* onClick of the trigger button
TriggerClick ==
    /\ handleToggle
    /\ SelectStep("click", "", -1)

\* onKeyDown of the trigger button
KeyDown(key) ==
    /\ handleKeyDown(key)
    /\ SelectStep("key", key, -1)

\* onClick of the option rendered at index i (the list is rendered while open)
OptionClick(i) ==
    /\ isOpen
    /\ handleSelect(options[i + 1].value)
    /\ SelectStep("option", "", i)

\* onMouseEnter of the option rendered at index i
OptionMouseEnter(i) ==
    /\ isOpen
    /\ focusedIndex' = i
    /\ threw' = FALSE
    /\ UNCHANGED <<formData, errors, focus, isOpen, announcementText>>
    /\ SelectStep("hover", "", i)

\* mousedown on the document outside the trigger and the listbox
MouseDownOutside ==
    /\ isOpen
    /\ handleClickOutside
    /\ SelectStep("outside", "", -1)

\* mousedown inside the trigger or the listbox of an open dropdown: the
\* listener runs and its test decides
MouseDownInside(target) ==
    /\ isOpen
    /\ listeners > 0
    /\ IF IsOutside(target) THEN handleClickOutside ELSE NoStateChange
    /\ SelectStep("inside", target, -1)

\* mousedown outside a closed dropdown: only a listener still held would run
MouseDownClosed ==
    /\ ~isOpen
    /\ IF listeners > 0 THEN handleClickOutside ELSE NoStateChange
    /\ SelectStep("outside", "", -1)

TextNext == \E f \in TextFields : \E v \in TextInputs(f) : ChangeText(f, v)

ChoiceNext ==
    \/ ChangeNewsletter
    \/ \E m \in ContactMethods : ChangeContactMethod(m)

SubmitNext == Submit \/ Resolve \/ Reject

SelectNext ==
    \/ TriggerClick
    \/ \E key \in Keys : KeyDown(key)
    \/ \E i \in 0..(Len(options) - 1) : OptionClick(i)
    \/ \E i \in 0..(Len(options) - 1) : OptionMouseEnter(i)
    \/ MouseDownOutside

\* The form from its construction: typing, submitting, settling.
Next == TextNext \/ SubmitNext

Spec == Init /\ [][Next]_vars

\* The promise handleSubmit awaits is settled by a timer, which fires.
FairSpec == Spec /\ WF_vars(Resolve \/ Reject)

\* The form once its five required fields hold valid text, before any submit
\* attempt: five ChangeText steps from Init lead here.
FilledFormData ==
    [InitialFormData EXCEPT
        !.firstName = <<"A", "l">>,
        !.lastName = <<"B", "o">>,
        !.email = <<"a", "@", "b", ".", "c", "o">>,
        !.subject = <<"H", "i">>,
        !.message = <<"1", "2", "3", "4", "5", "6", "7", "8", "9", "0">>]

InitFilled ==
    /\ formData = FilledFormData
    /\ errors = NoErrors
    /\ isSubmitting = FALSE
    /\ pending = 0
    /\ emitted = <<>>
    /\ focus = "none"
    /\ options = urgencyOptions
    /\ isOpen = FALSE
    /\ focusedIndex = -1
    /\ announcementText = NoAnnouncement
    /\ threw = FALSE
    /\ listeners = 0
    /\ scrolled = -1
    /\ part002 = NoPart002
    /\ lastEvent = Event("change", "message", -1)

\* the text fields typed into while the whole form is exercised
SystemTextFields == {"firstName"}

SystemTextNext ==
    \E f \in SystemTextFields : \E v \in TextInputs(f) : ChangeText(f, v)

\* The whole form, every control of it in use, from the filled form on.
SystemNext == SystemTextNext \/ ChoiceNext \/ SubmitNext \/ SelectNext

SystemSpec == InitFilled /\ [][SystemNext]_vars


\* every list of at most MaxOpts distinct options
OptionLists ==
    LET universe == {urgencyOptions[i] : i \in 1..Len(urgencyOptions)}
    IN  UNION {{l \in [1..n -> universe] :
                    \A i \in 1..n : \A j \in 1..n : l[i] = l[j] => i = j} :
               n \in 0..MaxOpts}

\* A CustomSelect of its own, handed any option list; value is 'medium',
\* which the list may or may not hold.
InitSelect ==
    /\ options \in OptionLists
    /\ formData = InitialFormData
    /\ errors = NoErrors
    /\ isSubmitting = FALSE
    /\ pending = 0
    /\ emitted = <<>>
    /\ focus = "none"
    /\ isOpen = FALSE
    /\ focusedIndex = -1
    /\ announcementText = NoAnnouncement
    /\ threw = FALSE
    /\ listeners = 0
    /\ scrolled = -1
    /\ part002 = NoPart002
    /\ lastEvent = Event("mount", "", -1)

\* the two dropdowns side by side: same options, same initial value
InitEquiv ==
    /\ options \in OptionLists
    /\ formData = InitialFormData
    /\ errors = NoErrors
    /\ isSubmitting = FALSE
    /\ pending = 0
    /\ emitted = <<>>
    /\ focus = "none"
    /\ isOpen = FALSE
    /\ focusedIndex = -1
    /\ announcementText = NoAnnouncement
    /\ threw = FALSE
    /\ listeners = 0
    /\ scrolled = -1
    /\ part002 = MountPart002(value)
    /\ lastEvent = Event("mount", "", -1)

\* mouse presses that reach no handler, or a handler that ignores them
PointerNext ==
    \/ \E target \in {"trigger", "listbox"} : MouseDownInside(target)
    \/ MouseDownClosed

SelectSpec == InitSelect /\ [][SelectNext \/ PointerNext]_vars

EquivSpec == InitEquiv /\ [][SelectNext \/ PointerNext]_vars

---------------------------------------------------------------------------
(* validateForm over a range of forms: the user has typed into every text  *)
(* field (no submission yet, so no errors), and then submits.              *)

\* values of firstName, lastName and subject: empty, blank, filled
NameInputs ==
    { <<>>,
      <<" ">>,
      <<"A", "l">> }

\* values of email
EmailInputs ==
    { <<>>,
      <<" ">>,
      <<"n", "o", "t", "-", "a", "n", "-", "e", "m", "a", "i", "l">>,
      <<"a", "@", "b", ".", "c", "o">>,
      <<"a", "@", "b">>,
      <<"a", " ", "@", "b", ".", "c", "o">> }

\* values of message: empty, blank, 9 and 10 characters, 9 between blanks
MessageInputs ==
    { <<>>,
      <<" ", " ">>,
      <<"1", "2", "3", "4", "5", "6", "7", "8", "9">>,
      <<"1", "2", "3", "4", "5", "6", "7", "8", "9", "0">>,
      <<" ", "1", "2", "3", "4", "5", "6", "7", "8", "9", " ">> }

\* values of phone
PhoneInputs ==
    { <<>>,
      <<" ">>,
      <<"+", "1", " ", "(", "5", "5", ")", "-", "0">>,
      <<"1", "2", "a">> }

ValidateForms ==
    { [ firstName |-> fn, lastName |-> ln, email |-> em, phone |-> ph,
        subject |-> su, message |-> me, newsletter |-> FALSE,
        contactMethod |-> "email", urgency |-> "medium" ] :
      fn \in NameInputs, ln \in NameInputs, su \in NameInputs,
      em \in EmailInputs, me \in MessageInputs, ph \in PhoneInputs }

InitValidate ==
    /\ formData \in ValidateForms
    /\ errors = NoErrors
    /\ isSubmitting = FALSE
    /\ pending = 0
    /\ emitted = <<>>
    /\ focus = "none"
    /\ options = urgencyOptions
    /\ isOpen = FALSE
    /\ focusedIndex = -1
    /\ announcementText = NoAnnouncement
    /\ threw = FALSE
    /\ listeners = 0
    /\ scrolled = -1
    /\ part002 = NoPart002
    /\ lastEvent = Event("change", "message", -1)

ValidateSpec == InitValidate /\ [][SubmitNext]_vars

---------------------------------------------------------------------------
(* The earlier variant of the form (src/unnamed/part_000): the same state, *)
(* validateForm and handleInputChange, another handleSubmit.               *)

\* toast.error(`Form submission failed. Please correct ${errorCount}
\* error${errorCount > 1 ? 's' : ''}.`)
CountToast(errorCount) ==
    Toast("error", "Form submission failed. Please correct",
          <<Decimal(errorCount),
            IF errorCount > 1 THEN <<" errors.">> ELSE <<" error.">> >>)

Part000SuccessToast ==
    Toast("success",
          "Thank you! Your message has been submitted successfully.", <<>>)

Part000FailureToast ==
    Toast("error", "An error occurred. Please try again.", <<>>)

\* handleSubmit of part_000 up to its return or its await: errorCount is
\* read from errors, the state of the render the handler was made in
part000HandleSubmit ==
    /\ errors' = ToObject(NewErrors(formData))
    /\ IF ~validateForm(formData)
          THEN LET errorCount == Cardinality(DOMAIN errors)
               IN  /\ emitted' = <<CountToast(errorCount)>>
                   /\ UNCHANGED <<formData, isSubmitting, pending, focus>>
          ELSE /\ isSubmitting' = TRUE
               /\ emitted' = <<>>
               /\ pending' = pending + 1
               /\ UNCHANGED <<formData, focus>>

\* handleSubmit of part_000 from the await on, the submission having succeeded
part000HandleSubmitResolved ==
    /\ emitted' = <<Part000SuccessToast>>
    /\ formData' = ResetFormData
    /\ isSubmitting' = FALSE
    /\ pending' = pending - 1
    /\ UNCHANGED <<errors, focus>>

\* handleSubmit of part_000 from the await on, the submission having failed
part000HandleSubmitRejected ==
    /\ emitted' = <<Part000FailureToast>>
    /\ isSubmitting' = FALSE
    /\ pending' = pending - 1
    /\ UNCHANGED <<formData, errors, focus>>

Part000Submit ==
    /\ SubmitButtonEnabled
    /\ pending < MaxPending
    /\ part000HandleSubmit
    /\ FormStep("submit", "")

Part000Resolve ==
    /\ pending > 0
    /\ part000HandleSubmitResolved
    /\ FormStep("resolve", "")

Part000Reject ==
    /\ pending > 0
    /\ part000HandleSubmitRejected
    /\ FormStep("reject", "")

Part000Next == TextNext \/ Part000Submit \/ Part000Resolve \/ Part000Reject

Part000Spec == Init /\ [][Part000Next]_vars

---------------------------------------------------------------------------
(* The contact method chooser (ContactMethodRadioGroup.tsx), with the props *)
(* MessageDetailsSection gives it: value = formData.contactMethod and       *)
(* onChange = value => onInputChange('contactMethod', value).               *)

contactMethods ==
    << [value |-> "email",  label |-> "Email"],
       [value |-> "phone",  label |-> "Phone"],
       [value |-> "either", label |-> "Either"] >>

radioOnChange(v) == handleInputChange("contactMethod", v)

\* Faulty variant: a handleKeyDown that answers Enter alone
radioHandleKeyDownEnterOnly(key, optionValue) ==
    IF key = "Enter"
       THEN radioOnChange(optionValue)
       ELSE UNCHANGED <<formData, errors>>

\* handleKeyDown(event, optionValue). A key pressed on the input reaches the
\* handler of the input and, bubbling, that of the label: both call onChange
\* with the same optionValue, which writes what one call writes.
radioHandleKeyDown(key, optionValue) ==
    IF key \in {"Enter", " "}
       THEN radioOnChange(optionValue)
       ELSE UNCHANGED <<formData, errors>>

\* checked={value === option.value}
checked(optionValue) == formData.contactMethod = optionValue

RadioKeys == {"Enter", " ", "Tab", "Escape"}

\* a handler of the chooser ran
RadioStep(type, name, index) ==
    /\ lastEvent' = Event(type, name, index)
    /\ emitted' = <<>>
    /\ threw' = FALSE
    /\ scrolled' = -1
    /\ UNCHANGED <<isSubmitting, pending, focus, options, isOpen,
                   focusedIndex, announcementText, listeners, part002>>

\* onChange of the radio input of option i: onChange(e.target.value)
RadioChange(i) ==
    /\ radioOnChange(contactMethods[i + 1].value)
    /\ RadioStep("radio", "", i)

\* onKeyDown on option i
RadioKeyDown(key, i) ==
    /\ radioHandleKeyDown(key, contactMethods[i + 1].value)
    /\ RadioStep("radiokey", key, i)

RadioNext ==
    \/ \E i \in 0..(Len(contactMethods) - 1) : RadioChange(i)
    \/ \E key \in RadioKeys : \E i \in 0..(Len(contactMethods) - 1) :
          RadioKeyDown(key, i)

RadioSpec == Init /\ [][RadioNext \/ ChoiceNext \/ SystemTextNext]_vars

---------------------------------------------------------------------------
(* Properties *)

Range(seq) == {seq[i] : i \in 1..Len(seq)}

\* the fields validation rejects
InvalidFields(fd) == {e[1] : e \in Range(NewErrors(fd))}

\* C1: a submit attempt cannot be made while a submission is outstanding
\* (the submit button is disabled while isSubmitting), so at most one
\* external submit call is outstanding and a 'submitting' notification is
\* only ever emitted for the first and only outstanding call.
C1_AtMostOneOutstanding ==
    /\ pending <= 1
    /\ (isSubmitting => ~ENABLED Submit)
    /\ (SubmittingToast \in Range(emitted) => pending = 1 /\ isSubmitting)

\* a submission is outstanding and the user goes on using the form
C1_Witness ==
    /\ isSubmitting
    /\ pending = 1
    /\ lastEvent.type = "change"

\* C2: a submission that set submitting=true ends with submitting=false,
\* whether the collaborator succeeds or fails.
C2_SubmittingEnds == isSubmitting ~> ~isSubmitting

\* a submission has failed and submitting is false again
C2_Witness ==
    /\ lastEvent.type = "reject"
    /\ ~isSubmitting
    /\ pending = 0

\* C3: a submit attempt on FormData that fails validation emits exactly one
\* aggregated failure notification (one item per failing field), starts no
\* external submit call, leaves submitting false and FormData unchanged.
C3_InvalidSubmit ==
    [][(lastEvent'.type = "submit" /\ InvalidFields(formData) # {}) =>
          /\ Len(emitted') = 1
          /\ emitted'[1].kind = "error"
          /\ {it[1] : it \in Range(emitted'[1].items)} =
                {fieldLabels[f] : f \in InvalidFields(formData)}
          /\ Len(emitted'[1].items) = Cardinality(InvalidFields(formData))
          /\ pending' = pending
          /\ isSubmitting' = FALSE
          /\ formData' = formData]_vars

\* a submit attempt has failed validation on exactly two fields
C3_Witness ==
    /\ lastEvent.type = "submit"
    /\ Cardinality(InvalidFields(formData)) = 2
    /\ Len(emitted) = 1
    /\ Len(emitted[1].items) = 2
    /\ pending = 0


\* C4: a submit attempt on valid FormData makes submitting true; when the
\* collaborator settles submitting is false again, and on success FormData
\* is the defaults: all strings empty, newsletter=false,
\* contactMethod='email', urgency='medium', whatever was edited meanwhile.
C4_ValidSubmitResets ==
    [][/\ (lastEvent'.type = "submit" /\ InvalidFields(formData) = {}) =>
              (isSubmitting' /\ pending' = pending + 1)
       /\ lastEvent'.type \in {"resolve", "reject"} => ~isSubmitting'
       /\ lastEvent'.type = "resolve" =>
              /\ \A f \in TextFields : formData'[f] = <<>>
              /\ formData'.newsletter = FALSE
              /\ formData'.contactMethod = "email"
              /\ formData'.urgency = "medium"
              /\ DOMAIN formData' = DOMAIN formData]_vars

\* a submission has succeeded: the form is back at its defaults
C4_Witness ==
    /\ lastEvent.type = "resolve"
    /\ ~isSubmitting
    /\ formData.firstName = <<>>
    /\ formData.urgency = "medium"
    /\ formData.contactMethod = "email"
    /\ emitted = <<SuccessToast>>

\* the validation-failure notifications
IsValidationToast(t) ==
    t.text \in {"Please fix the following issue:", "Please fix the following issues:"}

\* C5: when the collaborator signals an error, exactly one failure
\* notification is emitted, which is not the validation-failure one and not
\* a success one; FormData and the ErrorMap are left as they are; and the
\* form stays usable: submitting is false, no call is outstanding and the
\* submit button takes a new submit attempt.
C5_FailureKeepsForm ==
    /\ [][lastEvent'.type = "reject" =>
             /\ Len(emitted') = 1
             /\ emitted'[1].kind = "error"
             /\ ~IsValidationToast(emitted'[1])
             /\ emitted'[1].items = <<>>
             /\ formData' = formData
             /\ errors' = errors]_vars
    /\ [](lastEvent.type = "reject" =>
             /\ ~isSubmitting
             /\ pending = 0
             /\ ENABLED Submit)

\* a submission has failed and left a filled form behind
C5_Witness ==
    /\ lastEvent.type = "reject"
    /\ emitted = <<FailureToast>>
    /\ InvalidFields(formData) = {}
    /\ ~isSubmitting

\* the order of the fields on the page
CanonicalOrder == <<"firstName", "lastName", "email", "phone", "subject", "message">>

FirstInvalid(fd) ==
    CanonicalOrder[Min({i \in 1..Len(CanonicalOrder) :
                            CanonicalOrder[i] \in InvalidFields(fd)})]

\* C6: after a submit attempt that fails validation, keyboard focus is on the
\* first invalid field in the order firstName, lastName, email, phone,
\* subject, message.
C6_FocusFirstInvalid ==
    (lastEvent.type = "submit" /\ InvalidFields(formData) # {}) =>
        focus = FirstInvalid(formData)

\* C7: after setField(name, value) the ErrorMap has no key for name, and the
\* ErrorMap is empty exactly when no field is marked invalid.
C7_EntryRemoved ==
    /\ lastEvent.type = "change" => lastEvent.name \notin DOMAIN errors
    /\ (DOMAIN errors = {}) <=> (\A f \in TextFields : ~HasError(errors, f))

\* C8: after an edit that leaves a validated field invalid, the ErrorMap
\* holds an error for that field.
C8_RealTimeValidation ==
    (lastEvent.type = "change" /\ lastEvent.name \in InvalidFields(formData)) =>
        HasError(errors, lastEvent.name)

UrgencyLevels == {"low", "medium", "high", "urgent"}

\* C9: contactMethod is always one of email, phone, either and urgency always
\* one of low, medium, high, urgent.
C9_EnumsValid ==
    /\ formData.contactMethod \in {"email", "phone", "either"}
    /\ formData.urgency \in UrgencyLevels

\* both choices were changed, the urgency through the dropdown
C9_Witness ==
    /\ lastEvent.type = "option"
    /\ formData.urgency = "urgent"
    /\ formData.contactMethod = "either"

\* C10: for every option list, focusedIndex is within [-1, len(options)-1]
\* and no handler fails reading options outside 0..len-1.
C10_IndexInRange ==
    /\ focusedIndex \in -1..(Len(options) - 1)
    /\ ~threw

\* C11: with the options low, medium, high, urgent and the value medium,
\* ArrowDown on the closed dropdown opens it with focusedIndex 1; ArrowDown on
\* the open dropdown moves focusedIndex one down, and keeps it at 3.
C11_ArrowDownFromSelected ==
    [][(/\ lastEvent'.type = "key"
        /\ lastEvent'.name = "ArrowDown"
        /\ options = urgencyOptions
        /\ (~isOpen => value = "medium"))
       => /\ isOpen'
          /\ focusedIndex' = IF ~isOpen THEN 1
                             ELSE IF focusedIndex = 3 THEN 3
                             ELSE focusedIndex + 1]_vars

\* C12: a click on the trigger of a closed dropdown, or Enter or Space on it,
\* opens it, sets focusedIndex to the index of the option whose value is the
\* current value, or to 0 if there is none, and announces the option count.
C12_ToggleOpens ==
    [][(/\ ~isOpen
        /\ \/ lastEvent'.type = "click"
           \/ lastEvent'.type = "key" /\ lastEvent'.name \in {"Enter", " "})
       => LET hits == {i \in 1..Len(options) : options[i].value = value}
          IN  /\ isOpen'
              /\ focusedIndex' =
                    IF hits = {} THEN 0
                    ELSE (CHOOSE i \in hits : \A j \in hits : i <= j) - 1
              /\ announcementText' = CountAnnouncement(Len(options))
              /\ value' = value]_vars

\* the trigger was clicked and the dropdown opened at the selected option,
\* the second of two
C12_Witness ==
    /\ lastEvent.type = "click"
    /\ isOpen
    /\ Len(options) = 2
    /\ options[2].value = value
    /\ focusedIndex = 1

\* C13: a click on option i of the open dropdown makes options[i].value the
\* value (and changes nothing else of the form data), closes the dropdown,
\* moves the focus to the trigger and announces 'Selected: ' and the label of
\* options[i].
C13_SelectCommits ==
    [][lastEvent'.type = "option"
       => LET o == options[lastEvent'.index + 1]
          IN  /\ isOpen
              /\ formData' = [formData EXCEPT !.urgency = o.value]
              /\ ~isOpen'
              /\ focus' = TriggerId
              /\ announcementText' = <<"Selected: ", o.label>>]_vars

\* an option other than the one selected before was clicked
C13_Witness ==
    /\ lastEvent.type = "option"
    /\ lastEvent.index = 1
    /\ value = options[2].value
    /\ value # "medium"
    /\ ~isOpen
    /\ focus = TriggerId

\* C14: Escape on the open dropdown closes it, leaves the form data (and so
\* the value) as they are, moves the focus to the trigger and announces the
\* cancellation; Escape on the closed dropdown changes nothing.
C14_EscapeCancels ==
    [][(lastEvent'.type = "key" /\ lastEvent'.name = "Escape")
       => IF isOpen
             THEN /\ ~isOpen'
                  /\ formData' = formData
                  /\ focus' = TriggerId
                  /\ announcementText' = <<"Selection cancelled">>
             ELSE UNCHANGED <<formData, errors, focus, isOpen, focusedIndex,
                              announcementText, listeners>>]_vars

\* Escape closed a dropdown in which the second option had been focused
C14_Witness ==
    /\ lastEvent.type = "key"
    /\ lastEvent.name = "Escape"
    /\ ~isOpen
    /\ focusedIndex = 1
    /\ focus = TriggerId
    /\ announcementText = <<"Selection cancelled">>

\* C15: on the open dropdown ArrowDown sets focusedIndex to
\* min(focusedIndex + 1, len - 1) and ArrowUp to max(focusedIndex - 1, 0),
\* without wrapping around; the dropdown stays open, the form data stay, and
\* the announcement becomes the label of the option at the new index (where
\* the list has an option at that index).
C15_ArrowsClamp ==
    [][(/\ lastEvent'.type = "key"
        /\ lastEvent'.name \in {"ArrowDown", "ArrowUp"}
        /\ isOpen)
       => LET last == Len(options) - 1
              target ==
                 IF lastEvent'.name = "ArrowDown"
                    THEN IF focusedIndex + 1 < last THEN focusedIndex + 1
                                                    ELSE last
                    ELSE IF focusedIndex - 1 > 0 THEN focusedIndex - 1 ELSE 0
          IN  /\ isOpen'
              /\ focusedIndex' = target
              /\ formData' = formData
              /\ InRange(options, target) =>
                    announcementText' = <<options[target + 1].label>>]_vars

\* ArrowDown at the last option of a list of at least two: the index stayed
\* and the last label was announced
C15_Witness ==
    /\ lastEvent.type = "key"
    /\ lastEvent.name = "ArrowDown"
    /\ isOpen
    /\ Len(options) >= 2
    /\ focusedIndex = Len(options) - 1
    /\ announcementText = <<options[Len(options)].label>>

\* C16: on the open dropdown Home sets focusedIndex to 0 and End sets it to
\* len - 1, each announcing the label of the option at that index (where the
\* list has one) and leaving the dropdown open and the form data as they
\* are; on the closed dropdown Home and End change nothing.
C16_HomeEnd ==
    [][(lastEvent'.type = "key" /\ lastEvent'.name \in {"Home", "End"})
       => IF isOpen
             THEN LET target == IF lastEvent'.name = "Home"
                                   THEN 0 ELSE Len(options) - 1
                  IN  /\ isOpen'
                      /\ focusedIndex' = target
                      /\ formData' = formData
                      /\ InRange(options, target) =>
                            announcementText' = <<options[target + 1].label>>
             ELSE UNCHANGED <<formData, errors, focus, isOpen, focusedIndex,
                              announcementText, listeners>>]_vars

\* Home moved the focus from the second option to the first
C16_Witness ==
    /\ lastEvent.type = "key"
    /\ lastEvent.name = "Home"
    /\ isOpen
    /\ Len(options) = 2
    /\ options[2].value = value
    /\ focusedIndex = 0
    /\ announcementText = <<options[1].label>>

\* C17: Enter or Space on the open dropdown with a focusedIndex that names an
\* option does what a click on that option does, committing its value; on
\* the closed dropdown it does what a click on the trigger does: it opens
\* and leaves the form data alone, whatever focusedIndex an earlier opening
\* left.
C17_EnterSpace ==
    [][(lastEvent'.type = "key" /\ lastEvent'.name \in {"Enter", " "})
       => /\ (isOpen /\ InRange(options, focusedIndex)) =>
                 LET o == options[focusedIndex + 1]
                 IN  /\ handleSelect(o.value)
                     /\ formData' = [formData EXCEPT !.urgency = o.value]
                     /\ ~isOpen'
          /\ ~isOpen =>
                 /\ handleToggle
                 /\ isOpen'
                 /\ formData' = formData]_vars

\* Enter committed the focused option, one other than the value before
C17_Witness ==
    /\ lastEvent.type = "key"
    /\ lastEvent.name = "Enter"
    /\ ~isOpen
    /\ InRange(options, focusedIndex)
    /\ value = options[focusedIndex + 1].value
    /\ value # "medium"
    /\ announcementText = <<"Selected: ", options[focusedIndex + 1].label>>

\* C18: a mouse press outside the trigger and the listbox of the open
\* dropdown closes it and leaves the form data (and so the value) alone; a
\* press inside the trigger or the listbox leaves it open and changes
\* nothing; on the closed dropdown an outside press changes nothing.
C18_ClickOutside ==
    [][/\ (lastEvent'.type = "outside" /\ isOpen) =>
              /\ ~isOpen'
              /\ formData' = formData
       /\ lastEvent'.type = "inside" =>
              /\ isOpen /\ isOpen'
              /\ UNCHANGED <<formData, errors, focus, focusedIndex,
                             announcementText, listeners>>
       /\ (lastEvent'.type = "outside" /\ ~isOpen) =>
              UNCHANGED <<formData, errors, focus, isOpen, focusedIndex,
                          announcementText, listeners>>]_vars

\* an outside press closed a dropdown whose focus had been moved by the keys
C18_Witness ==
    /\ lastEvent.type = "outside"
    /\ ~isOpen
    /\ listeners = 0
    /\ value = "medium"
    /\ Len(announcementText) = 1
    /\ announcementText # CancelledAnnouncement

\* C19: the document holds exactly one click-outside listener of the dropdown
\* while it is open and none while it is closed, after any sequence of
\* openings and closings.
C19_OneListener == listeners = IF isOpen THEN 1 ELSE 0

\* the dropdown is open again after a selection or an Escape closed it (only
\* those move the focus to the trigger)
C19_Witness ==
    /\ isOpen
    /\ focus = TriggerId
    /\ listeners = 1

\* C20: every step that opens or closes the dropdown sets the announcement,
\* in that step, to a new text that is not empty; none leaves the text of
\* before or the empty text.
C20_OpenCloseAnnounced ==
    [][isOpen' # isOpen
       => /\ announcementText' # <<>>
          /\ announcementText' # announcementText]_vars

\* C21: a step after which the dropdown is open and in which focusedIndex
\* changed or the dropdown opened (ArrowDown, ArrowUp, Home, End, opening,
\* hover) scrolls the option at the new focusedIndex into view (where the
\* list has one) before the next event; a step after which the dropdown is
\* closed scrolls nothing.
C21_ScrollOnFocusChange ==
    [][/\ (/\ isOpen'
           /\ focusedIndex' # focusedIndex \/ ~isOpen
           /\ InRange(options, focusedIndex')) => scrolled' = focusedIndex'
       /\ ~isOpen' => scrolled' = -1]_vars

\* the mouse moved to the second option and it was scrolled into view
C21_Witness ==
    /\ lastEvent.type = "hover"
    /\ isOpen
    /\ focusedIndex = 1
    /\ scrolled = 1

\* the three kinds of validation error, by their messages
RequiredMessages ==
    { "First name is required", "Last name is required",
      "Email address is required", "Subject is required",
      "Message is required" }
InvalidFormatMessages ==
    { "Please enter a valid email address",
      "Please enter a valid phone number" }
TooShortMessages == { "Message must be at least 10 characters long" }

\* the kind of the entry of a field in an ErrorMap, "None" if it has none
ErrorKind(errs, name) ==
    IF name \notin DOMAIN errs THEN "None"
    ELSE IF errs[name] \in RequiredMessages THEN "Required"
    ELSE IF errs[name] \in InvalidFormatMessages THEN "InvalidFormat"
    ELSE IF errs[name] \in TooShortMessages THEN "TooShort"
    ELSE "Other"

\* the trimmed text is empty: every character is whitespace
IsBlank(s) == \A i \in 1..Len(s) : IsSpace(s[i])

\* C22: after validation, each of firstName, lastName and subject has a
\* Required entry exactly when its trimmed value is empty, and no entry
\* otherwise, whatever the other fields hold.
C22_RequiredNames ==
    lastEvent.type = "submit" =>
        \A f \in {"firstName", "lastName", "subject"} :
            ErrorKind(errors, f) =
                IF IsBlank(formData[f]) THEN "Required" ELSE "None"

\* a blank first name was reported while the filled last name, in a form
\* with other errors, was not
C22_Witness ==
    /\ lastEvent.type = "submit"
    /\ formData.firstName = <<" ">>
    /\ ErrorKind(errors, "firstName") = "Required"
    /\ formData.lastName = <<"A", "l">>
    /\ "lastName" \notin DOMAIN errors
    /\ formData.subject = <<>>
    /\ ErrorKind(errors, "subject") = "Required"
    /\ "email" \in DOMAIN errors

\* s is one or more characters, none of them whitespace or '@'
IsEmailPart(s) ==
    /\ Len(s) >= 1
    /\ \A i \in 1..Len(s) : ~IsSpace(s[i]) /\ s[i] # "@"

\* s is such a part, '@', such a part, '.', such a part
MatchesEmailPattern(s) ==
    \E a \in 1..Len(s) : \E d \in 1..Len(s) :
        /\ a < d
        /\ s[a] = "@"
        /\ s[d] = "."
        /\ IsEmailPart(SubSeq(s, 1, a - 1))
        /\ IsEmailPart(SubSeq(s, a + 1, d - 1))
        /\ IsEmailPart(SubSeq(s, d + 1, Len(s)))

\* C23 as stated: after validation email has a Required entry if the value
\* is empty, otherwise an InvalidFormat entry if the value does not match
\* the pattern, otherwise no entry.
C23_EmailAsStated ==
    lastEvent.type = "submit" =>
        ErrorKind(errors, "email") =
            IF formData.email = <<>> THEN "Required"
            ELSE IF ~MatchesEmailPattern(formData.email) THEN "InvalidFormat"
            ELSE "None"

\* C23: after validation email has a Required entry if the trimmed value is
\* empty (the empty value and the values of whitespace only), otherwise an
\* InvalidFormat entry if the value as typed does not match the pattern,
\* otherwise no entry.
C23_EmailValidated ==
    lastEvent.type = "submit" =>
        ErrorKind(errors, "email") =
            IF IsBlank(formData.email) THEN "Required"
            ELSE IF ~MatchesEmailPattern(formData.email) THEN "InvalidFormat"
            ELSE "None"

\* 'not-an-email' was reported as InvalidFormat
C23_Witness ==
    /\ lastEvent.type = "submit"
    /\ formData.email =
          <<"n", "o", "t", "-", "a", "n", "-", "e", "m", "a", "i", "l">>
    /\ ErrorKind(errors, "email") = "InvalidFormat"

\* the length of the trimmed text: from the first to the last character that
\* is not whitespace
TrimmedLength(s) ==
    LET solid == {i \in 1..Len(s) : ~IsSpace(s[i])}
    IN  IF solid = {} THEN 0
        ELSE (CHOOSE i \in solid : \A j \in solid : j <= i)
             - (CHOOSE i \in solid : \A j \in solid : i <= j) + 1

\* C24 as stated: after validation message has a Required entry if the value
\* is empty, otherwise a TooShort entry if its trimmed length is less than
\* 10, otherwise no entry.
C24_MessageAsStated ==
    lastEvent.type = "submit" =>
        ErrorKind(errors, "message") =
            IF formData.message = <<>> THEN "Required"
            ELSE IF TrimmedLength(formData.message) < 10 THEN "TooShort"
            ELSE "None"

\* C24: after validation message has a Required entry if the trimmed value
\* is empty (the empty value and the values of whitespace only), otherwise a
\* TooShort entry if its trimmed length is less than 10, otherwise no entry:
\* trimmed length 10 passes, 9 fails.
C24_MessageValidated ==
    lastEvent.type = "submit" =>
        ErrorKind(errors, "message") =
            IF IsBlank(formData.message) THEN "Required"
            ELSE IF TrimmedLength(formData.message) < 10 THEN "TooShort"
            ELSE "None"

\* a message of nine characters between two blanks was reported as TooShort
C24_Witness ==
    /\ lastEvent.type = "submit"
    /\ Len(formData.message) = 11
    /\ TrimmedLength(formData.message) = 9
    /\ ErrorKind(errors, "message") = "TooShort"

\* a character a phone number may hold: a digit, whitespace, hyphen, plus or
\* parenthesis
IsPhoneChar(c) ==
    \/ c \in {"0", "1", "2", "3", "4", "5", "6", "7", "8", "9"}
    \/ IsSpace(c)
    \/ c \in {"-", "+", "(", ")"}

\* C25: after validation phone has no entry when its value is empty; when it
\* is not empty it has an InvalidFormat entry exactly when one of its
\* characters is not a digit, space, hyphen, plus or parenthesis, and no
\* entry otherwise.
C25_PhoneValidated ==
    lastEvent.type = "submit" =>
        ErrorKind(errors, "phone") =
            IF formData.phone = <<>> THEN "None"
            ELSE IF \E i \in 1..Len(formData.phone) :
                        ~IsPhoneChar(formData.phone[i])
                    THEN "InvalidFormat"
            ELSE "None"

\* '12a' was reported as InvalidFormat, in a form with no other error
C25_Witness ==
    /\ lastEvent.type = "submit"
    /\ formData.phone = <<"1", "2", "a">>
    /\ DOMAIN errors = {"phone"}
    /\ ErrorKind(errors, "phone") = "InvalidFormat"

C27_OneValidationResult ==
    (lastEvent.type = "submit" /\ DOMAIN errors # {}) =>
        /\ Len(emitted) = 1
        /\ emitted[1].kind = "error"
        /\ Len(emitted[1].items) = Cardinality(DOMAIN errors)
        /\ Range(emitted[1].items) =
              {<<fieldLabels[k], errors[k]>> : k \in DOMAIN errors}
        /\ focus \in DOMAIN errors
        /\ emitted[1].items[1] = <<fieldLabels[focus], errors[focus]>>

\* a failing attempt with an entry for every field
C27_Witness ==
    /\ lastEvent.type = "submit"
    /\ DOMAIN errors = TextFields
    /\ Len(emitted[1].items) = 6

\* C28: a submit attempt with valid form data sets isSubmitting and emits
\* the one 'submitting' notification in the step that hands the data to the
\* collaborator; nothing is emitted while the call is outstanding; the step
\* in which the call settles emits exactly one notification, the success or
\* the failure one; and that step does come. No validation notification
\* belongs to the attempt.
C28_NotificationOrder ==
    /\ [][(lastEvent'.type = "submit" /\ validateForm(formData))
          => /\ emitted' = <<SubmittingToast>>
             /\ isSubmitting'
             /\ pending = 0 /\ pending' = 1]_vars
    /\ [][pending' < pending
          => /\ pending' = pending - 1
             /\ emitted' \in {<<SuccessToast>>, <<FailureToast>>}]_vars
    /\ [][(pending > 0 /\ pending' >= pending) => emitted' = <<>>]_vars
    /\ (emitted = <<SubmittingToast>>)
          ~> (emitted \in {<<SuccessToast>>, <<FailureToast>>})

\* the call of a valid attempt resolved: the success notification alone
C28_Witness ==
    /\ lastEvent.type = "resolve"
    /\ emitted = <<SuccessToast>>
    /\ pending = 0
    /\ ~isSubmitting

\* C29: isSubmitting is true exactly when a submit call is outstanding.
C29_SubmittingIffPending == isSubmitting <=> pending > 0

\* a call is outstanding and the user has typed since it was made
C29_Witness ==
    /\ isSubmitting
    /\ pending = 1
    /\ lastEvent.type = "change"

\* C30: with a list of at least one option, focusedIndex is an index of the
\* list (0 <= focusedIndex <= len - 1) whenever the dropdown is open; so
\* Enter or Space on the open dropdown always selects the focused option: it
\* commits that option's value and announces the selection.
C30_OpenIndexValid ==
    /\ []((options # <<>> /\ isOpen)
             => (0 <= focusedIndex /\ focusedIndex <= Len(options) - 1))
    /\ [][(/\ options # <<>>
           /\ isOpen
           /\ lastEvent'.type = "key"
           /\ lastEvent'.name \in {"Enter", " "})
          => /\ ~isOpen'
             /\ formData'.urgency = options[focusedIndex + 1].value
             /\ announcementText' =
                   <<"Selected: ", options[focusedIndex + 1].label>>]_vars

\* the dropdown opened at its second option, the selected one, and the mouse
\* moved the focus to the first
C30_Witness ==
    /\ lastEvent.type = "hover"
    /\ isOpen
    /\ Len(options) = 2
    /\ options[2].value = value
    /\ focusedIndex = 0

\* C31: the form data (and so the value of the dropdown) and the ErrorMap,
\* which only onChange writes, change in no step of the dropdown but a
\* click on an option or Enter or Space on the open dropdown: not by
\* ArrowUp, ArrowDown, Home, End, Escape, the toggle, hover or a mouse press
\* outside or inside, open or closed.
C31_ValueOnlyBySelection ==
    [][(/\ lastEvent'.type \in
              {"key", "click", "hover", "outside", "inside", "option"}
        /\ ~(lastEvent'.type = "option" /\ isOpen)
        /\ ~(/\ lastEvent'.type = "key"
             /\ lastEvent'.name \in {"Enter", " "}
             /\ isOpen))
       => /\ formData' = formData
          /\ errors' = errors]_vars

\* End moved the focus to the second option while the first is the value
C31_Witness ==
    /\ lastEvent.type = "key"
    /\ lastEvent.name = "End"
    /\ isOpen
    /\ Len(options) = 2
    /\ focusedIndex = 1
    /\ value = options[1].value

C33_LiveRegionOnlyWithErrors ==
    ErrorRegionRendered => \E k \in DOMAIN errors : errors[k] # ""

\* C34: while the dropdown (of a list that is not empty) is open, the
\* announcement is the option-count message or the label of
\* options[focusedIndex], and a step that changes focusedIndex on the open
\* dropdown sets the announcement to the label at the new index.
C34_AnnouncementFollowsFocus ==
    /\ []((isOpen /\ options # <<>>)
             => \/ announcementText = CountAnnouncement(Len(options))
                \/ /\ InRange(options, focusedIndex)
                   /\ announcementText = <<options[focusedIndex + 1].label>>)
    /\ [][(/\ options # <<>>
           /\ isOpen /\ isOpen'
           /\ focusedIndex' # focusedIndex)
          => /\ InRange(options, focusedIndex')
             /\ announcementText' =
                   <<options[focusedIndex' + 1].label>>]_vars

\* C35: in the form of part_000, the count in the notification of a submit
\* attempt that fails validation is the number of fields that fail
\* validation in that attempt.
C35_CountOfThisAttempt ==
    (lastEvent.type = "submit" /\ emitted # <<>>) =>
        emitted[1].items[1] = Decimal(Cardinality(InvalidFields(formData)))

\* C36: Enter or Space on an option of the contact method chooser, and a
\* change of its radio input, make that option's value the contact method
\* and change nothing else of the form data; in every state exactly one of
\* the three options email, phone, either is checked.
C36_RadioChooser ==
    /\ [][(\/ lastEvent'.type = "radio"
           \/ /\ lastEvent'.type = "radiokey"
              /\ lastEvent'.name \in {"Enter", " "})
          => formData' =
                [formData EXCEPT !.contactMethod =
                    <<"email", "phone", "either">>[lastEvent'.index + 1]]]_vars
    /\ [](Cardinality({v \in {"email", "phone", "either"} : checked(v)}) = 1)

\* Space on the third option made 'either' the contact method
C36_Witness ==
    /\ lastEvent = Event("radiokey", " ", 2)
    /\ formData.contactMethod = "either"
    /\ checked("either")
    /\ ~checked("email")

\* C37: the dropdown of part_002 and the documented CustomSelect, given the
\* same option list, the same initial value and the same events (toggle,
\* keys, option clicks, hover, outside presses), are in the same state
\* (isOpen, focusedIndex, value) after each of them.
C37_SameState ==
    part002.mounted =>
        /\ part002.isOpen = isOpen
        /\ part002.focusedIndex = focusedIndex
        /\ part002.value = value

\* both committed an option other than the initial value by a click on it
C37_Witness ==
    /\ part002.mounted
    /\ lastEvent.type = "option"
    /\ ~isOpen
    /\ value # "medium"
    /\ part002.value = value

=============================================================================
